---- MODULE Spec2Model ----
(***************************************************************************)
(* State-machine model of the map viewer's App component (src/src/App.js). *)
(*                                                                         *)
(* The React component's useState cells are the variables; every event    *)
(* handler is one action, and the re-render React performs after a state  *)
(* change (which is where FlyToBounds calls map.fitBounds) is part of the *)
(* action.  The useMemo values (filteredLocations, uniqueOwners) are pure *)
(* functions of the state and are operators.                              *)
(*                                                                         *)
(* JavaScript values: a value that may be null/undefined is None (<<>>)   *)
(* or Some(v) (<<v>>).  A string is a sequence of one-character strings,  *)
(* so "" is <<>> and Some(<<>>) is a present, empty string.               *)
(***************************************************************************)
EXTENDS Integers, Sequences, FiniteSets, TLC

VARIABLES
    locations,          \* the imported feature collection (immutable)
    utcOffset,          \* the browser's time zone, hours east of UTC
    searchQuery,        \* useState('')
    selectedBounds,     \* useState(null)
    year,               \* useState(1900)
    yearFilterEnabled,  \* useState(false)
    showOwners,         \* useState(false)
    showFarms,          \* useState(false)
    highlightedOwner,   \* useState(null)
    rankBySize,         \* useState(true)
    alertOpen,          \* the blocking alert('Region not found!') is showing
    fitCalls            \* number of map.fitBounds calls issued so far

vars == <<locations, utcOffset, searchQuery, selectedBounds, year,
          yearFilterEnabled, showOwners, showFarms, highlightedOwner,
          rankBySize, alertOpen, fitCalls>>

----------------------------------------------------------------------------
(* Bounds of the model and constants of the program *)

\* Largest number of fitBounds calls followed.
MaxFitCalls == 3

\* Longest store drawn by InitAgg.
MaxRecords == 3

DefaultYear == 1900
SliderMin == 1650
SliderMax == 1780

----------------------------------------------------------------------------
(* JavaScript values *)

None == <<>>
Some(v) == <<v>>

EmptyText == <<>>

UpperCaseLetters ==
    <<"A","B","C","D","E","F","G","H","I","J","K","L","M",
      "N","O","P","Q","R","S","T","U","V","W","X","Y","Z">>

LowerCaseLetters ==
    <<"a","b","c","d","e","f","g","h","i","j","k","l","m",
      "n","o","p","q","r","s","t","u","v","w","x","y","z">>

DigitChars == <<"0","1","2","3","4","5","6","7","8","9">>

IsIn(table, c) == \E i \in 1..Len(table) : table[i] = c

IndexIn(table, c) == CHOOSE i \in 1..Len(table) : table[i] = c

\* String.prototype.toLowerCase, on the letters A-Z.
ToLowerCase(text) ==
    [i \in 1..Len(text) |->
        IF IsIn(UpperCaseLetters, text[i])
        THEN LowerCaseLetters[IndexIn(UpperCaseLetters, text[i])]
        ELSE text[i]]

\* JavaScript truthiness of an optional string: neither null/undefined nor "".
Truthy(opt) == opt # None /\ opt[1] # EmptyText

----------------------------------------------------------------------------
(* new Date(dateStr).getFullYear() *)

DigitValue(c) == IndexIn(DigitChars, c) - 1

Number2(text, i) == 10 * DigitValue(text[i]) + DigitValue(text[i + 1])

Number4(text, i) == 100 * Number2(text, i) + Number2(text, i + 2)

\* The date-only ISO form YYYY-MM-DD.  (Of the strings Date accepts, the
\* stores of this model hold this form only; their other date strings are
\* letters, which Date rejects.)
IsIsoDate(text) ==
    /\ Len(text) = 10
    /\ \A i \in {1, 2, 3, 4, 6, 7, 9, 10} : IsIn(DigitChars, text[i])
    /\ text[5] = "-" /\ text[8] = "-"
    /\ Number2(text, 6) \in 1..12
    /\ Number2(text, 9) \in 1..31

\* new Date(dateStr): a date-only ISO string is midnight UTC of that day;
\* anything else here is an Invalid Date (None).
NewDate(text) ==
    IF IsIsoDate(text)
    THEN Some([y |-> Number4(text, 1), m |-> Number2(text, 6), d |-> Number2(text, 9)])
    ELSE None

\* Date.prototype.getFullYear: the year of the instant in LOCAL time, NaN
\* (None) for an Invalid Date.  Midnight UTC is the evening of the previous
\* day in a zone west of UTC, so 1 January falls in the previous year there.
GetFullYear(date, offset) ==
    IF date = None THEN None
    ELSE IF offset < 0 /\ date[1].m = 1 /\ date[1].d = 1
         THEN Some(date[1].y - 1)
         ELSE Some(date[1].y)

IsNaN(n) == n = None

----------------------------------------------------------------------------
(* String.prototype.localeCompare, on strings of the letters A-Z, a-z *)

LetterRank(c) ==
    IF IsIn(UpperCaseLetters, c) THEN IndexIn(UpperCaseLetters, c)
    ELSE IndexIn(LowerCaseLetters, c)

\* Primary collation key: the letters, case ignored.
PrimaryKey(text) == [i \in 1..Len(text) |-> LetterRank(text[i])]

\* Tertiary collation key: lower case sorts before upper case.
CaseKey(text) ==
    [i \in 1..Len(text) |-> IF IsIn(UpperCaseLetters, text[i]) THEN 1 ELSE 0]

\* Lexicographic comparison of two sequences of numbers: -1, 0 or 1.
RECURSIVE CompareKeys(_, _)
CompareKeys(a, b) ==
    IF a = <<>> /\ b = <<>> THEN 0
    ELSE IF a = <<>> THEN -1
    ELSE IF b = <<>> THEN 1
    ELSE IF Head(a) < Head(b) THEN -1
    ELSE IF Head(a) > Head(b) THEN 1
    ELSE CompareKeys(Tail(a), Tail(b))

\* a.localeCompare(b): letters first, case only to break a tie.
LocaleCompare(a, b) ==
    LET letters == CompareKeys(PrimaryKey(a), PrimaryKey(b))
    IN  IF letters # 0 THEN letters ELSE CompareKeys(CaseKey(a), CaseKey(b))

----------------------------------------------------------------------------
(* L.geoJSON(feature).getBounds() *)

\* A geometry is the set of its vertices <<lng, lat>>.
SetMin(S) == CHOOSE x \in S : \A y \in S : x <= y

SetMax(S) == CHOOSE x \in S : \A y \in S : x >= y

GetBounds(feature) ==
    LET lngs == {p[1] : p \in feature.geometry}
        lats == {p[2] : p \in feature.geometry}
    IN  [west |-> SetMin(lngs), south |-> SetMin(lats),
         east |-> SetMax(lngs), north |-> SetMax(lats)]

----------------------------------------------------------------------------
(* The data set: locations.json *)

Feature(name, owner, date, geometry) ==
    [name |-> name, owner |-> owner, date |-> date, geometry |-> geometry]

Hoop == <<"H","o","o","p">>
hoop == <<"h","o","o","p">>
Niew == <<"N","i","e","w">>
Oost == <<"O","o","s","t">>
OOST == <<"O","O","S","T">>

Van == <<"V","a","n">>
adam == <<"a","d","a","m">>
Beck == <<"B","e","c","k">>

Date16570402 == <<"1","6","5","7","-","0","4","-","0","2">>
Date17000101 == <<"1","7","0","0","-","0","1","-","0","1">>
Date17010101 == <<"1","7","0","1","-","0","1","-","0","1">>
Date17500601 == <<"1","7","5","0","-","0","6","-","0","1">>
DateUnknown == <<"u","n","k","n","o","w","n">>

PolygonA == {<<1, 1>>, <<2, 1>>, <<2, 2>>, <<1, 2>>}
PolygonB == {<<3, 1>>, <<5, 1>>, <<5, 3>>, <<3, 3>>}
PolygonC == {<<0, 4>>, <<1, 6>>, <<2, 4>>}

\* Three farms, one without an owner.
ScenarioStore ==
    << Feature(Some(Hoop), Some(Van), Some(Date16570402), PolygonA),
       Feature(Some(Niew), Some(Van), Some(Date17000101), PolygonB),
       Feature(Some(Oost), None, Some(Date17500601), PolygonC) >>

\* Two farms whose names differ in case only, and a farm in between.
DuplicateStore ==
    << Feature(Some(Hoop), Some(adam), Some(Date16570402), PolygonA),
       Feature(Some(Niew), Some(Beck), Some(DateUnknown), PolygonC),
       Feature(Some(hoop), Some(Van), Some(Date17010101), PolygonB) >>

\* Records with absent and empty properties.
SparseStore ==
    << Feature(None, None, None, PolygonA),
       Feature(Some(Oost), Some(Beck), Some(EmptyText), PolygonB),
       Feature(Some(EmptyText), Some(EmptyText), Some(Date17010101), PolygonC) >>

Stores == {ScenarioStore, DuplicateStore, SparseStore}

\* What the user types into the search field.
Queries == {EmptyText, hoop, OOST, Niew}

\* Positions of the range input (min 1650, max 1780, step 1) that are tried.
SliderYears == {y \in SliderMin..SliderMax : y \in {SliderMin, 1700, 1701, SliderMax}}

\* Time zones of the browser, in hours east of UTC.
TimeZones == {-5, 2}

\* Records and stores of the aggregation specification.
AggRecords ==
    {Feature(Some(Hoop), owner, date, PolygonA) :
        owner \in {None, Some(EmptyText), Some(Van), Some(adam)},
        date \in {None, Some(Date16570402), Some(Date17010101)}}

AggStores == UNION {[1..n -> AggRecords] : n \in 0..MaxRecords}

----------------------------------------------------------------------------
(* The memoised values *)

\* feature?.properties?.date parsed to a year, NaN (None) when there is none.
YearParsed(feature) ==
    IF Truthy(feature.date)
    THEN GetFullYear(NewDate(feature.date[1]), utcOffset)
    ELSE None

\* The callback of locations.features.filter.
PassesFilter(feature) ==
    IF ~yearFilterEnabled THEN TRUE
    ELSE LET yearParsed == YearParsed(feature)
         IN  ~IsNaN(yearParsed) /\ yearParsed[1] <= year

FilteredLocations == SelectSeq(locations, PassesFilter)

\* The forEach loop over the features: ownerCounts as the sequence of its
\* entries, in the order the keys were created.
RECURSIVE CountOwners(_, _)
CountOwners(features, ownerCounts) ==
    IF features = <<>> THEN ownerCounts
    ELSE LET owner == Head(features).owner
             known == Truthy(owner) /\
                      \E i \in 1..Len(ownerCounts) : ownerCounts[i].owner = owner[1]
             next ==
                 IF ~Truthy(owner) THEN ownerCounts
                 ELSE IF known
                 THEN [i \in 1..Len(ownerCounts) |->
                          IF ownerCounts[i].owner = owner[1]
                          THEN [owner |-> owner[1], count |-> ownerCounts[i].count + 1]
                          ELSE ownerCounts[i]]
                 ELSE Append(ownerCounts, [owner |-> owner[1], count |-> 1])
         IN  CountOwners(Tail(features), next)

\* Array.prototype.sort with (a, b) => a.owner.localeCompare(b.owner); the
\* sort is stable.
RECURSIVE InsertByOwner(_, _)
InsertByOwner(sorted, entry) ==
    IF sorted = <<>> THEN <<entry>>
    ELSE IF LocaleCompare(Head(sorted).owner, entry.owner) <= 0
    THEN <<Head(sorted)>> \o InsertByOwner(Tail(sorted), entry)
    ELSE <<entry>> \o sorted

RECURSIVE SortByOwner(_)
SortByOwner(entries) ==
    IF entries = <<>> THEN <<>>
    ELSE InsertByOwner(SortByOwner(SubSeq(entries, 1, Len(entries) - 1)),
                       entries[Len(entries)])

UniqueOwnersOfWholeStore == SortByOwner(CountOwners(locations, <<>>))

\* Object.entries(ownerCounts).map(...).sort(...) over the filtered features.
UniqueOwners == SortByOwner(CountOwners(FilteredLocations, <<>>))

----------------------------------------------------------------------------
(* Rendering *)

\* App re-renders after a state change, and with it FlyToBounds, which is
\* mounted while selectedBounds is set and calls map.fitBounds in its body.
Render ==
    /\ (selectedBounds' # None) => fitCalls < MaxFitCalls
    /\ fitCalls' = IF selectedBounds' # None THEN fitCalls + 1 ELSE fitCalls

----------------------------------------------------------------------------
(* The search form *)

\* onChange of the search field.
SetSearchQuery(text) ==
    /\ ~alertOpen
    /\ text # searchQuery
    /\ searchQuery' = text
    /\ UNCHANGED <<locations, utcOffset, selectedBounds, year, yearFilterEnabled,
                   showOwners, showFarms, highlightedOwner, rankBySize, alertOpen>>
    /\ Render

\* feature.properties?.name?.toLowerCase() === searchQuery.toLowerCase()
NameMatches(feature, query) ==
    /\ feature.name # None
    /\ ToLowerCase(feature.name[1]) = ToLowerCase(query)

SearchFeaturesStoppingAtFirst(features, query, result) ==
    IF \E i \in 1..Len(features) : NameMatches(features[i], query)
    THEN LET first == CHOOSE i \in 1..Len(features) :
                          /\ NameMatches(features[i], query)
                          /\ \A j \in 1..(i - 1) : ~NameMatches(features[j], query)
         IN  [found |-> TRUE, bounds |-> Some(GetBounds(features[first]))]
    ELSE result

\* The forEach loop of handleSearch: every matching feature calls
\* setSelectedBounds and sets found; result.bounds is the pending update.
RECURSIVE SearchFeatures(_, _, _)
SearchFeatures(features, query, result) ==
    IF features = <<>> THEN result
    ELSE SearchFeatures(
             Tail(features), query,
             IF NameMatches(Head(features), query)
             THEN [found |-> TRUE, bounds |-> Some(GetBounds(Head(features)))]
             ELSE result)

\* The queued setSelectedBounds is applied and the component re-renders.
SearchHit(result) ==
    /\ selectedBounds' = result.bounds
    /\ alertOpen' = FALSE
    /\ Render

SearchMissClearsBounds ==
    /\ alertOpen' = TRUE
    /\ selectedBounds' = None
    /\ UNCHANGED fitCalls

\* if (!found) alert('Region not found!'): nothing was set, nothing renders.
SearchMiss ==
    /\ alertOpen' = TRUE
    /\ UNCHANGED <<selectedBounds, fitCalls>>

HandleSearchOver(features) ==
    /\ ~alertOpen
    /\ LET result == SearchFeatures(features, searchQuery,
                                    [found |-> FALSE, bounds |-> None])
       IN  IF result.found THEN SearchHit(result) ELSE SearchMiss
    /\ UNCHANGED <<locations, utcOffset, searchQuery, year, yearFilterEnabled,
                   showOwners, showFarms, highlightedOwner, rankBySize>>

HandleSearchWholeStore == HandleSearchOver(locations)

\* onSubmit of the search form.
HandleSearch == HandleSearchOver(FilteredLocations)

\* The user closes the alert; handleSearch returns.
DismissAlert ==
    /\ alertOpen
    /\ alertOpen' = FALSE
    /\ UNCHANGED <<locations, utcOffset, searchQuery, selectedBounds, year,
                   yearFilterEnabled, showOwners, showFarms, highlightedOwner,
                   rankBySize, fitCalls>>

----------------------------------------------------------------------------
(* The year filter *)

ToggleYearFilterClearsBounds ==
    /\ ~alertOpen
    /\ yearFilterEnabled' = ~yearFilterEnabled
    /\ selectedBounds' = None
    /\ UNCHANGED <<locations, utcOffset, searchQuery, year, showOwners, showFarms,
                   highlightedOwner, rankBySize, alertOpen>>
    /\ Render

\* onClick of the "Filter by Year" header.
ToggleYearFilter ==
    /\ ~alertOpen
    /\ yearFilterEnabled' = ~yearFilterEnabled
    /\ UNCHANGED <<locations, utcOffset, searchQuery, selectedBounds, year,
                   showOwners, showFarms, highlightedOwner, rankBySize, alertOpen>>
    /\ Render

\* onChange of the range input, which is rendered while the filter is on.
SetYear(value) ==
    /\ ~alertOpen
    /\ yearFilterEnabled
    /\ value # year
    /\ year' = value
    /\ UNCHANGED <<locations, utcOffset, searchQuery, selectedBounds,
                   yearFilterEnabled, showOwners, showFarms, highlightedOwner,
                   rankBySize, alertOpen>>
    /\ Render

----------------------------------------------------------------------------
(* The owner list and the farm list *)

ToggleOwnersKeepsHighlight ==
    /\ ~alertOpen
    /\ showOwners' = ~showOwners
    /\ UNCHANGED <<locations, utcOffset, searchQuery, selectedBounds, year,
                   yearFilterEnabled, showFarms, highlightedOwner, rankBySize,
                   alertOpen>>
    /\ Render

\* onClick of the "List All Owners" header.
ToggleOwners ==
    /\ ~alertOpen
    /\ showOwners' = ~showOwners
    /\ highlightedOwner' = IF showOwners THEN None ELSE highlightedOwner
    /\ UNCHANGED <<locations, utcOffset, searchQuery, selectedBounds, year,
                   yearFilterEnabled, showFarms, rankBySize, alertOpen>>
    /\ Render

SelectOwnerFromHiddenList(owner) ==
    /\ ~alertOpen
    /\ \E i \in 1..Len(UniqueOwners) : UniqueOwners[i].owner = owner
    /\ highlightedOwner # Some(owner)
    /\ highlightedOwner' = Some(owner)
    /\ UNCHANGED <<locations, utcOffset, searchQuery, selectedBounds, year,
                   yearFilterEnabled, showOwners, showFarms, rankBySize, alertOpen>>
    /\ Render

\* onClick of an entry of the owner list, which is rendered while showOwners;
\* setting the owner that is already highlighted changes nothing.
SelectOwner(owner) ==
    /\ ~alertOpen
    /\ showOwners
    /\ \E i \in 1..Len(UniqueOwners) : UniqueOwners[i].owner = owner
    /\ highlightedOwner # Some(owner)
    /\ highlightedOwner' = Some(owner)
    /\ UNCHANGED <<locations, utcOffset, searchQuery, selectedBounds, year,
                   yearFilterEnabled, showOwners, showFarms, rankBySize, alertOpen>>
    /\ Render

\* onClick of the "List All Lands" header.
ToggleFarms ==
    /\ ~alertOpen
    /\ showFarms' = ~showFarms
    /\ UNCHANGED <<locations, utcOffset, searchQuery, selectedBounds, year,
                   yearFilterEnabled, showOwners, highlightedOwner, rankBySize,
                   alertOpen>>
    /\ Render

\* onChange of the "Rank by size" checkbox, rendered while showFarms.
SetRankBySize ==
    /\ ~alertOpen
    /\ showFarms
    /\ rankBySize' = ~rankBySize
    /\ UNCHANGED <<locations, utcOffset, searchQuery, selectedBounds, year,
                   yearFilterEnabled, showOwners, showFarms, highlightedOwner,
                   alertOpen>>
    /\ Render

----------------------------------------------------------------------------
(* Specifications *)

\* The useState defaults, before any event.
Defaults ==
    /\ searchQuery = EmptyText
    /\ selectedBounds = None
    /\ year = DefaultYear
    /\ yearFilterEnabled = FALSE
    /\ showOwners = FALSE
    /\ showFarms = FALSE
    /\ highlightedOwner = None
    /\ rankBySize = TRUE
    /\ alertOpen = FALSE
    /\ fitCalls = 0

Init ==
    /\ locations \in Stores
    /\ utcOffset \in TimeZones
    /\ Defaults

AllOwners == {locations[i].owner[1] : i \in {j \in 1..Len(locations) : locations[j].owner # None}}

Next ==
    \/ \E text \in Queries : SetSearchQuery(text)
    \/ HandleSearch
    \/ DismissAlert
    \/ ToggleYearFilter
    \/ \E value \in SliderYears : SetYear(value)
    \/ ToggleOwners
    \/ \E owner \in AllOwners : SelectOwner(owner)
    \/ ToggleFarms
    \/ SetRankBySize

Spec == Init /\ [][Next]_vars

\* The filter and the owner aggregation over every store of up to
\* MaxRecords records.
InitAgg ==
    /\ locations \in AggStores
    /\ utcOffset \in TimeZones
    /\ Defaults

NextAgg ==
    \/ ToggleYearFilter
    \/ \E value \in SliderYears : SetYear(value)

SpecAgg == InitAgg /\ [][NextAgg]_vars

----------------------------------------------------------------------------
(* Notions the properties are stated with *)

\* The positions of the features whose name equals the query, case ignored.
MatchingPositions(features, query) ==
    {i \in 1..Len(features) : NameMatches(features[i], query)}

Matches == MatchingPositions(FilteredLocations, searchQuery)

FirstMatch == FilteredLocations[SetMin(Matches)]

LastMatch == FilteredLocations[SetMax(Matches)]

\* The records of the store the year filter hides.
ExcludedPositions == {i \in 1..Len(locations) : ~PassesFilter(locations[i])}

\* The calendar year a date string states, None when it states none.
StatedYear(feature) ==
    IF Truthy(feature.date) /\ IsIsoDate(feature.date[1])
    THEN Some(Number4(feature.date[1], 1))
    ELSE None

WithinThreshold(feature) ==
    StatedYear(feature) # None /\ StatedYear(feature)[1] <= year

RECURSIVE SumOfCounts(_)
SumOfCounts(entries) ==
    IF entries = <<>> THEN 0 ELSE Head(entries).count + SumOfCounts(Tail(entries))

\* The step changes none of the state cells besides selectedBounds.
OnlySearchState ==
    UNCHANGED <<searchQuery, year, yearFilterEnabled, showOwners, showFarms,
                highlightedOwner, rankBySize>>

----------------------------------------------------------------------------
(* Properties *)

\* C1 (as stated): a search that matches several records of the filtered
\* collection sets selectedBounds to the bounds of the FIRST of them in store
\* order.
C1_FirstMatchWins ==
    [][(HandleSearch /\ Matches # {}) => selectedBounds' = Some(GetBounds(FirstMatch))]_vars

\* C1 (amended): a search that matches several records of the filtered
\* collection sets selectedBounds to the bounds of the LAST of them in store
\* order; the earlier matching records are overwritten.
C1_LastMatchWins ==
    [][(HandleSearch /\ Matches # {}) => selectedBounds' = Some(GetBounds(LastMatch))]_vars

\* A search has matched two records with different bounds and the bounds of
\* the later one are selected.
C1_Witness ==
    /\ Cardinality(Matches) >= 2
    /\ GetBounds(FirstMatch) # GetBounds(LastMatch)
    /\ selectedBounds = Some(GetBounds(LastMatch))
    /\ fitCalls > 0

\* C2: a search without a match raises the notice and leaves selectedBounds
\* as it was; a search with a match overwrites selectedBounds with the bounds
\* of a matching record and raises no notice; the notice is raised by nothing
\* but a search without a match.
C2_SearchOutcome ==
    [][ /\ HandleSearch =>
              IF Matches = {}
              THEN alertOpen' /\ selectedBounds' = selectedBounds
              ELSE /\ ~alertOpen'
                   /\ \E i \in Matches : selectedBounds' = Some(GetBounds(FilteredLocations[i]))
        /\ (alertOpen' /\ ~alertOpen) => (Matches = {} /\ selectedBounds' = selectedBounds)
      ]_vars

\* The notice of a failed search is showing and the bounds of an earlier
\* successful search are still selected.
C2_Witness ==
    /\ alertOpen
    /\ selectedBounds # None
    /\ Matches = {}

\* C3: with the year filter on, a search for the name of a record the filter
\* hides raises the notice and leaves selectedBounds alone, unless a record
\* that passes the filter has that name too.
C3_HiddenRecordNotFound ==
    [][ ( /\ HandleSearch
          /\ yearFilterEnabled
          /\ \E i \in ExcludedPositions : NameMatches(locations[i], searchQuery)
          /\ ~ \E i \in (1..Len(locations)) \ ExcludedPositions :
                   NameMatches(locations[i], searchQuery) )
        => (alertOpen' /\ selectedBounds' = selectedBounds) ]_vars

\* The notice is showing for a query that names a record hidden by the filter.
C3_Witness ==
    /\ alertOpen
    /\ yearFilterEnabled
    /\ \E i \in ExcludedPositions : NameMatches(locations[i], searchQuery)

\* C4: the filtered collection is the whole store when the year filter is
\* off, and when it is on exactly the records, in store order, whose date
\* states a calendar year that is at most the threshold.
C4_FilterByStatedYear ==
    FilteredLocations =
        IF yearFilterEnabled THEN SelectSeq(locations, WithinThreshold) ELSE locations

\* C5: in every reachable state the year threshold is within the range of
\* the slider.
C5_YearInSliderRange == year \in SliderMin..SliderMax

\* C6: map.fitBounds is called once by a search that matches and by no other
\* step.
C6_FitOncePerSearch ==
    [][fitCalls' = fitCalls + (IF HandleSearch /\ Matches # {} THEN 1 ELSE 0)]_vars

\* C7: after the owner list is toggled, either way, no owner is highlighted.
C7_ToggleClearsHighlight ==
    [][(showOwners' # showOwners) => highlightedOwner' = None]_vars

\* The owner list is showing with an owner highlighted, and can be collapsed.
C7_Witness ==
    /\ showOwners
    /\ highlightedOwner # None
    /\ ~alertOpen

\* C8: a step that changes selectedBounds is a search that matched: it
\* changes neither the filter, nor the ranking mode, nor the lists, nor the
\* highlighted owner.
C8_BoundsChangedBySearchOnly ==
    [][(selectedBounds' # selectedBounds) => (OnlySearchState /\ Matches # {})]_vars

\* Bounds are selected and the filter hides every record that has them.
C8_Witness ==
    /\ selectedBounds # None
    /\ yearFilterEnabled
    /\ \A i \in 1..Len(FilteredLocations) :
           Some(GetBounds(FilteredLocations[i])) # selectedBounds

\* C9: the owner aggregation has one entry per owner of the filtered
\* collection, in ascending order of the owners, each with the number of
\* filtered records of that owner; the counts add up to the number of
\* filtered records that have an owner.
C9_OwnerAggregation ==
    LET entries == UniqueOwners
        filtered == FilteredLocations
        owned == {i \in 1..Len(filtered) : Truthy(filtered[i].owner)}
    IN  /\ {entries[i].owner : i \in 1..Len(entries)}
               = {filtered[i].owner[1] : i \in owned}
        /\ \A i, j \in 1..Len(entries) :
               i < j => LocaleCompare(entries[i].owner, entries[j].owner) < 0
        /\ \A i \in 1..Len(entries) :
               entries[i].count =
                   Cardinality({k \in owned : filtered[k].owner[1] = entries[i].owner})
        /\ SumOfCounts(entries) = Cardinality(owned)

\* The filter hides a record that has an owner, and the two owners left were
\* met in descending order.
C9_Witness ==
    /\ yearFilterEnabled
    /\ \E i \in ExcludedPositions : Truthy(locations[i].owner)
    /\ Len(UniqueOwners) = 2
    /\ CountOwners(FilteredLocations, <<>>) # UniqueOwners

\* C10: an owner is highlighted only while the owner list is showing.
C10_HighlightOnlyWhileListed ==
    highlightedOwner # None => showOwners

\* An owner is highlighted who owns no record of the filtered collection.
C10_Witness ==
    /\ highlightedOwner # None
    /\ \A i \in 1..Len(UniqueOwners) : UniqueOwners[i].owner # highlightedOwner[1]

====
